---- MODULE Spec2Model ----
(***************************************************************************)
(* Model of .agents/skills/issue-resolve/scripts/generate_issues_report.py *)
(*                                                                         *)
(* Strings are sequences of one-character strings, so that strip(),        *)
(* splitlines(), the four regular expressions, int(), sorted() and the     *)
(* f-strings are computed character by character as Python computes them.  *)
(***************************************************************************)
EXTENDS Integers, Sequences, FiniteSets, TLC

\* ------------------------------------------------------------------------
\* Bounds of the model
\* ------------------------------------------------------------------------
MaxLines == 5
MaxDirFiles == 3
MaxIssues == 3

\* ------------------------------------------------------------------------
\* Characters and strings
\* ------------------------------------------------------------------------

\* The characters the model uses, in code-point order.
Ascii ==
  << "\n", " ", "#", "(", ")", "*", "-", ".", "/",
     "0", "1", "2", "3", "4", "5", "6", "7", "8", "9", ":", "<", ">",
     "A", "B", "C", "D", "E", "F", "G", "H", "I", "J", "K", "L", "M",
     "N", "O", "P", "Q", "R", "S", "T", "U", "V", "W", "X", "Y", "Z",
     "[", "]", "_",
     "a", "b", "c", "d", "e", "f", "g", "h", "i", "j", "k", "l", "m",
     "n", "o", "p", "q", "r", "s", "t", "u", "v", "w", "x", "y", "z", "|" >>

CodeOf == [c \in { Ascii[i] : i \in 1..Len(Ascii) } |->
             CHOOSE i \in 1..Len(Ascii) : Ascii[i] = c]
Code(c) == CodeOf[c]

UpperLetters == << "A", "B", "C", "D", "E", "F", "G", "H", "I", "J", "K", "L", "M",
                   "N", "O", "P", "Q", "R", "S", "T", "U", "V", "W", "X", "Y", "Z" >>
LowerLetters == << "a", "b", "c", "d", "e", "f", "g", "h", "i", "j", "k", "l", "m",
                   "n", "o", "p", "q", "r", "s", "t", "u", "v", "w", "x", "y", "z" >>

\* Case folding of re.IGNORECASE
LowerOf == [c \in { UpperLetters[i] : i \in 1..26 } |->
              LowerLetters[CHOOSE i \in 1..26 : UpperLetters[i] = c]]
Lower(c) == IF c \in DOMAIN LowerOf THEN LowerOf[c] ELSE c

\* \s of the patterns and the whitespace of str.strip()
IsSpace(c) == c \in {" ", "\t", "\n"}

\* \d of _BUG_NUMBER_RE
Digits == << "0", "1", "2", "3", "4", "5", "6", "7", "8", "9" >>
DigitOf == [c \in { Digits[i] : i \in 1..10 } |->
              (CHOOSE i \in 1..10 : Digits[i] = c) - 1]
IsDigit(c) == c \in DOMAIN DigitOf
DigitVal(c) == DigitOf[c]

\* s[i:] of Python, with 1-based i
From(s, i) == SubSeq(s, i, Len(s))

\* Python's comparison of two str: by code point, a proper prefix is smaller
RECURSIVE StrLess(_, _)
StrLess(a, b) ==
  IF b = << >> THEN FALSE
  ELSE IF a = << >> THEN TRUE
  ELSE IF Head(a) = Head(b) THEN StrLess(Tail(a), Tail(b))
  ELSE Code(Head(a)) < Code(Head(b))

\* str.strip()
RECURSIVE LStrip(_)
LStrip(s) == IF s # << >> /\ IsSpace(Head(s)) THEN LStrip(Tail(s)) ELSE s
RECURSIVE RStrip(_)
RStrip(s) ==
  IF s # << >> /\ IsSpace(s[Len(s)]) THEN RStrip(SubSeq(s, 1, Len(s) - 1)) ELSE s
Strip(s) == RStrip(LStrip(s))

\* str.splitlines(): the lines between "\n", without a last empty line
\* ("\n" is the only line boundary among the characters of the model)
RECURSIVE splitlines(_)
splitlines(s) ==
  IF s = << >> THEN << >>
  ELSE IF \A i \in 1..Len(s) : s[i] # "\n" THEN << s >>
  ELSE LET nl == CHOOSE i \in 1..Len(s) :
                   s[i] = "\n" /\ \A j \in 1..(i - 1) : s[j] # "\n"
       IN  << SubSeq(s, 1, nl - 1) >> \o splitlines(SubSeq(s, nl + 1, Len(s)))

\* int() of a run of decimal digits
RECURSIVE IntAcc(_, _)
IntAcc(ds, acc) ==
  IF ds = << >> THEN acc ELSE IntAcc(Tail(ds), 10 * acc + DigitVal(Head(ds)))
int(ds) == IntAcc(ds, 0)

\* str() of a natural number
RECURSIVE str(_)
str(n) == IF n < 10 THEN << Digits[n + 1] >> ELSE str(n \div 10) \o << Digits[(n % 10) + 1] >>

\* ------------------------------------------------------------------------
\* The four patterns
\* ------------------------------------------------------------------------
NoMatch == [ok |-> FALSE, group |-> << >>]
Match(g) == [ok |-> TRUE, group |-> g]

\* s starts at position i with the literal lit, ignoring case
StartsWithCI(s, i, lit) ==
  /\ i + Len(lit) - 1 <= Len(s)
  /\ \A k \in 1..Len(lit) : Lower(s[i + k - 1]) = Lower(lit[k])

\* First position at or after i that does not hold whitespace (greedy \s*)
RECURSIVE SkipSpaces(_, _)
SkipSpaces(s, i) == IF i <= Len(s) /\ IsSpace(s[i]) THEN SkipSpaces(s, i + 1) ELSE i

\* First position at or after i that does not hold a digit (greedy \d+)
RECURSIVE SkipDigits(_, _)
SkipDigits(s, i) == IF i <= Len(s) /\ IsDigit(s[i]) THEN SkipDigits(s, i + 1) ELSE i

\* The tail "\s*(.+)" of the three header patterns, tried at position i.
\* \s* takes all the whitespace; when nothing is left for (.+) it gives
\* back one character, if it took any.
RestGroup(s, i) ==
  LET j == SkipSpaces(s, i) IN
    IF j <= Len(s) THEN Match(From(s, j))
    ELSE IF j > i THEN Match(From(s, Len(s)))
    ELSE NoMatch

BugLit == << "_", "b", "u", "g" >>
TitleLit == << "[", "B", "u", "g", "]", ":" >>
StatusLit == << "*", "*", "S", "t", "a", "t", "u", "s", ":", "*", "*" >>
TagsLit == << "*", "*", "T", "a", "g", "s", ":", "*", "*" >>

\* Faulty variant of BugAt: \d* in place of \d+
BugAtNoDigits(s, i) ==
  LET d == i + Len(BugLit)
      e == SkipDigits(s, d)
  IN  IF StartsWithCI(s, i, BugLit) /\ e <= Len(s) /\ s[e] = "_"
      THEN Match(SubSeq(s, d, e - 1))
      ELSE NoMatch

\* _BUG_NUMBER_RE tried at position i of the name: "_bug", digits, "_"
BugAt(s, i) ==
  LET d == i + Len(BugLit)
      e == SkipDigits(s, d)
  IN  IF StartsWithCI(s, i, BugLit) /\ e > d /\ e <= Len(s) /\ s[e] = "_"
      THEN Match(SubSeq(s, d, e - 1))
      ELSE NoMatch

\* _BUG_NUMBER_RE.search(filename): the leftmost match
RECURSIVE BugSearchFrom(_, _)
BugSearchFrom(s, i) ==
  IF i > Len(s) THEN NoMatch
  ELSE IF BugAt(s, i).ok THEN BugAt(s, i)
  ELSE BugSearchFrom(s, i + 1)
BUG_NUMBER_RE_search(s) == BugSearchFrom(s, 1)

\* _TITLE_RE.match(line): "#", \s*, "[Bug]:", \s*, (.+)
TITLE_RE_match(line) ==
  IF line # << >> /\ line[1] = "#"
  THEN LET j == SkipSpaces(line, 2) IN
         IF StartsWithCI(line, j, TitleLit)
         THEN RestGroup(line, j + Len(TitleLit))
         ELSE NoMatch
  ELSE NoMatch

\* _STATUS_RE.match(line)
STATUS_RE_match(line) ==
  IF StartsWithCI(line, 1, StatusLit) THEN RestGroup(line, Len(StatusLit) + 1) ELSE NoMatch

\* _TAGS_RE.match(line)
TAGS_RE_match(line) ==
  IF StartsWithCI(line, 1, TagsLit) THEN RestGroup(line, Len(TagsLit) + 1) ELSE NoMatch

\* ------------------------------------------------------------------------
\* parse_issue
\* ------------------------------------------------------------------------
NoTitle == << "<", "n", "o", " ", "t", "i", "t", "l", "e", ">" >>
Unknown == << "U", "n", "k", "n", "o", "w", "n" >>

\* The three guards of the loop body: the field still holds its default
TitlePending(st) == st.title = NoTitle
StatusPending(st) == st.status = Unknown
\* Faulty variant of TagsPending: the guard of the tags tests status
TagsPendingOnStatus(st) == st.status = Unknown
TagsPending(st) == st.tags = Unknown

\* Faulty variant of AllFound: or in place of and
AnyFound(st) == st.title # NoTitle \/ st.status # Unknown \/ st.tags # Unknown
\* The condition of the break
AllFound(st) == st.title # NoTitle /\ st.status # Unknown /\ st.tags # Unknown

\* The assignments of one iteration, without the break
UpdateFields(st, raw) ==
  LET line == Strip(raw)
      m2 == TITLE_RE_match(line)
      m3 == STATUS_RE_match(line)
      m4 == TAGS_RE_match(line)
  IN  IF TitlePending(st) /\ m2.ok
        THEN [st EXCEPT !.title = Strip(m2.group), !.cont = TRUE]
      ELSE IF StatusPending(st) /\ m3.ok
        THEN [st EXCEPT !.status = Strip(m3.group), !.cont = TRUE]
      ELSE IF TagsPending(st) /\ m4.ok
        THEN [st EXCEPT !.tags = Strip(m4.group), !.cont = TRUE]
      ELSE [st EXCEPT !.cont = FALSE]

\* One iteration of the loop over the lines: cont says that the iteration
\* ended in a continue, brk that it ended in the break.
ScanLine(st, raw) ==
  LET u == UpdateFields(st, raw) IN
    [u EXCEPT !.brk = (~u.cont /\ AllFound(u))]

InitFields == [title |-> NoTitle, status |-> Unknown, tags |-> Unknown,
               cont |-> FALSE, brk |-> FALSE]

\* The whole loop from line i on
RECURSIVE ScanFrom(_, _, _)
ScanFrom(lines, i, st) ==
  IF i > Len(lines) \/ st.brk THEN st
  ELSE ScanFrom(lines, i + 1, ScanLine(st, lines[i]))


\* An Issue of the data model
Issue(filename, bug_number, st) ==
  [filename |-> filename, bug_number |-> bug_number,
   title |-> st.title, status |-> st.status, tags |-> st.tags]

NoIssue == [filename |-> << >>, bug_number |-> 0,
            title |-> << >>, status |-> << >>, tags |-> << >>]

\* What path.read_text(encoding="utf-8") does with the three kinds of file:
\* it returns the text, raises an OSError, or raises a UnicodeDecodeError.
TextFile(t) == [kind |-> "text", text |-> t]
OSErrorFile == [kind |-> "oserror", text |-> << >>]
UndecodableFile == [kind |-> "undecodable", text |-> << >>]

\* The except clause of parse_issue: the exceptions it catches
\* Faulty variant of Caught: no except clause
CaughtNothing(kind) == FALSE
Caught(kind) == kind = "oserror"

\* parse_issue(path) as a whole. kind is "issue" (an Issue is returned),
\* "none" (None, silently), "warn" (None, after a warning on stderr) or
\* "raise" (an exception leaves the function).
parse_issue(name, file) ==
  LET m == BUG_NUMBER_RE_search(name) IN
    IF ~m.ok THEN [kind |-> "none", issue |-> NoIssue]
    ELSE IF file.kind # "text"
      THEN [kind |-> IF Caught(file.kind) THEN "warn" ELSE "raise", issue |-> NoIssue]
    ELSE [kind |-> "issue",
          issue |-> Issue(name, int(m.group),
                          ScanFrom(splitlines(file.text), 1, InitFields))]

\* ------------------------------------------------------------------------
\* generate_report
\* ------------------------------------------------------------------------
Fixed == << "F", "i", "x", "e", "d" >>
Open == << "O", "p", "e", "n" >>
Invalid == << "I", "n", "v", "a", "l", "i", "d" >>
Verified == << "V", "e", "r", "i", "f", "i", "e", "d" >>
NotVerified == << "N", "o", "t", " ", "V", "e", "r", "i", "f", "i", "e", "d" >>
NotReproduced == << "N", "o", "t", " ", "R", "e", "p", "r", "o", "d", "u", "c", "e", "d" >>

STATUS_ORDER == << Fixed, Open, Invalid >>
TAGS_ORDER == << Verified, NotVerified, NotReproduced >>

\* A dict[str, int] is the sequence of its items in insertion order.
HasKey(counts, key) == \E i \in 1..Len(counts) : counts[i].key = key
Get(counts, key) == counts[CHOOSE i \in 1..Len(counts) : counts[i].key = key].n
Keys(counts) == [i \in 1..Len(counts) |-> counts[i].key]

\* counts[key] = counts.get(key, 0) + 1
Incr(counts, key) ==
  IF HasKey(counts, key)
  THEN [i \in 1..Len(counts) |->
          IF counts[i].key = key THEN [counts[i] EXCEPT !.n = @ + 1] ELSE counts[i]]
  ELSE Append(counts, [key |-> key, n |-> 1])

\* The counting loop over issues[i..]
RECURSIVE CountStatus(_, _, _)
CountStatus(issues, i, counts) ==
  IF i > Len(issues) THEN counts
  ELSE CountStatus(issues, i + 1, Incr(counts, issues[i].status))
RECURSIVE CountTags(_, _, _)
CountTags(issues, i, counts) ==
  IF i > Len(issues) THEN counts
  ELSE CountTags(issues, i + 1, Incr(counts, issues[i].tags))

InOrder(order, key) == \E i \in 1..Len(order) : order[i] = key

\* sorted() of strings: each element goes after the elements not greater
RECURSIVE InsertStr(_, _)
InsertStr(s, x) ==
  IF s = << >> THEN << x >>
  ELSE IF StrLess(x, Head(s)) THEN << x >> \o s
  ELSE << Head(s) >> \o InsertStr(Tail(s), x)
RECURSIVE SortStrsAcc(_, _)
SortStrsAcc(s, acc) ==
  IF s = << >> THEN acc ELSE SortStrsAcc(Tail(s), InsertStr(acc, Head(s)))
\* Faulty variant of sorted_strs: the keys in insertion order
Unsorted(s) == s
sorted_strs(s) == SortStrsAcc(s, << >>)

\* sorted(issues, key=lambda i: i.bug_number): stable
\* Faulty variant of GoesBefore: an unstable sort
GoesBeforeOrEqual(x, y) == x.bug_number <= y.bug_number
\* x is inserted before y only when its key is smaller
GoesBefore(x, y) == x.bug_number < y.bug_number
RECURSIVE InsertIssue(_, _)
InsertIssue(s, x) ==
  IF s = << >> THEN << x >>
  ELSE IF GoesBefore(x, Head(s)) THEN << x >> \o s
  ELSE << Head(s) >> \o InsertIssue(Tail(s), x)
RECURSIVE SortIssuesAcc(_, _)
SortIssuesAcc(s, acc) ==
  IF s = << >> THEN acc ELSE SortIssuesAcc(Tail(s), InsertIssue(acc, Head(s)))
sorted_issues(s) == SortIssuesAcc(s, << >>)

\* "\n".join(lines)
RECURSIVE Join(_)
Join(ls) ==
  IF ls = << >> THEN << >>
  ELSE IF Len(ls) = 1 THEN ls[1]
  ELSE ls[1] \o << "\n" >> \o Join(Tail(ls))

\* f"- **{key}**: {counts[key]}"
Bullet(key, n) == << "-", " ", "*", "*" >> \o key \o << "*", "*", ":", " " >> \o str(n)

RECURSIVE SelectSeqBy(_, _, _)
\* The elements of s that are (keep) or are not (~keep) in order, in s's order
SelectSeqBy(s, order, keep) ==
  IF s = << >> THEN << >>
  ELSE IF InOrder(order, Head(s)) = keep
       THEN << Head(s) >> \o SelectSeqBy(Tail(s), order, keep)
       ELSE SelectSeqBy(Tail(s), order, keep)

\* Faulty variant of KnownKeys: the loop runs over counts, not over order
KnownKeysAsInserted(counts, order) == SelectSeqBy(Keys(counts), order, TRUE)

\* The keys of the first loop of _stat_lines: the known values that occur
RECURSIVE KnownKeys(_, _)
KnownKeys(counts, order) ==
  IF order = << >> THEN << >>
  ELSE IF HasKey(counts, Head(order))
       THEN << Head(order) >> \o KnownKeys(counts, Tail(order))
       ELSE KnownKeys(counts, Tail(order))

\* The keys of the second loop of _stat_lines
OtherKeys(counts, order) == SelectSeqBy(sorted_strs(Keys(counts)), order, FALSE)

\* _stat_lines(counts, order)
stat_lines(counts, order) ==
  LET ks == KnownKeys(counts, order) \o OtherKeys(counts, order) IN
    [i \in 1..Len(ks) |-> Bullet(ks[i], Get(counts, ks[i]))]

\* f"| [{filename}](./{filename}) | {title} | {status} | {tags} |"
Row(issue) ==
  << "|", " ", "[" >> \o issue.filename \o << "]", "(", ".", "/" >> \o issue.filename
  \o << ")", " ", "|", " " >> \o issue.title \o << " ", "|", " " >> \o issue.status
  \o << " ", "|", " " >> \o issue.tags \o << " ", "|" >>

\* The rows of the table
table_rows(issues) ==
  LET s == sorted_issues(issues) IN [i \in 1..Len(s) |-> Row(s[i])]

ReportHead == << "#", " ", "B", "u", "g", " ", "I", "s", "s", "u", "e", "s", " ", "R", "e", "p", "o", "r", "t", "\n", "\n", "#", "#", " ", "S", "t", "a", "t", "i", "s", "t", "i", "c", "s", "\n", "\n", "#", "#", "#", " ", "B", "y", " ", "S", "t", "a", "t", "u", "s", "\n" >>
ReportTags == << "\n", "\n", "#", "#", "#", " ", "B", "y", " ", "T", "a", "g", "s", "\n" >>
ReportTable == << "\n", "\n", "#", "#", " ", "A", "l", "l", " ", "I", "s", "s", "u", "e", "s", "\n", "\n", "|", " ", "I", "s", "s", "u", "e", " ", "|", " ", "T", "i", "t", "l", "e", " ", "|", " ", "S", "t", "a", "t", "u", "s", " ", "|", " ", "T", "a", "g", "s", " ", "|", "\n", "|", "-", "-", "-", "|", "-", "-", "-", "|", "-", "-", "-", "|", "-", "-", "-", "|", "\n" >>

\* The f-string that assembles the report
Assemble(stat_status, stat_tags, table_body) ==
  ReportHead \o stat_status \o ReportTags \o stat_tags \o ReportTable
  \o table_body \o << "\n" >>

\* generate_report(issues) as a whole
generate_report(issues) ==
  [stat_status |-> stat_lines(CountStatus(issues, 1, << >>), STATUS_ORDER),
   stat_tags |-> stat_lines(CountTags(issues, 1, << >>), TAGS_ORDER),
   rows |-> table_rows(issues),
   text |-> Assemble(Join(stat_lines(CountStatus(issues, 1, << >>), STATUS_ORDER)),
                     Join(stat_lines(CountTags(issues, 1, << >>), TAGS_ORDER)),
                     Join(table_rows(issues)))]


\* ------------------------------------------------------------------------
\* Inputs
\* ------------------------------------------------------------------------
L_TitleA == << "#", " ", "[", "B", "u", "g", "]", ":", " ", "A" >>
L_StatusUnknown == << "*", "*", "S", "t", "a", "t", "u", "s", ":", "*", "*", " ", "U", "n", "k", "n", "o", "w", "n" >>
L_StatusFixed == << " ", " ", "*", "*", "s", "t", "a", "t", "u", "s", ":", "*", "*", "F", "i", "x", "e", "d", " ", " " >>
L_TagsNot == << "*", "*", "T", "A", "G", "S", ":", "*", "*", " ", " ", " ", "N", "o", "t", " ", "V", "e", "r", "i", "f", "i", "e", "d" >>
L_Body == << "S", "t", "a", "t", "u", "s", ":", " ", "O", "p", "e", "n" >>

\* The lines a file is made of
LineSet == { L_TitleA, L_StatusUnknown, L_StatusFixed, L_TagsNot, L_Body }

SeqsUpTo(S, n) == UNION { [1..k -> S] : k \in 0..n }

N_a == << "a", "_", "b", "u", "g", "2", "_", "x", ".", "m", "d" >>
N_b == << "b", "_", "B", "U", "G", "1", "_", "y", ".", "m", "d" >>
N_c == << "c", "_", "b", "u", "g", "1", "_", "z", ".", "m", "d" >>
N_d == << "d", "_", "b", "u", "g", "_", "e", ".", "m", "d" >>
N_e == << "e", "_", "b", "u", "g", "3", "_", ".", "t", "x", "t" >>
ReportName == << "I", "S", "S", "U", "E", "S", "_", "R", "E", "P", "O", "R", "T", ".", "m", "d" >>

\* The names a directory entry can have
Names == { N_a, N_b, N_c, N_d, N_e, ReportName }

T_Full == Join(<< L_TitleA, L_StatusFixed, L_TagsNot, L_Body >>)
T_Partial == Join(<< L_Body, L_StatusUnknown, L_TagsNot >>)

\* The files a directory entry can be
FileSet == { TextFile(T_Full), TextFile(T_Partial), OSErrorFile, UndecodableFile }

Deferred == << "D", "e", "f", "e", "r", "r", "e", "d" >>
Wontfix == << "W", "o", "n", "t", "f", "i", "x" >>
closed == << "c", "l", "o", "s", "e", "d" >>
F1 == << "f", "1", ".", "m", "d" >>
F2 == << "f", "2", ".", "m", "d" >>
F3 == << "f", "3", ".", "m", "d" >>
F4 == << "f", "4", ".", "m", "d" >>
F5 == << "f", "5", ".", "m", "d" >>
F6 == << "f", "6", ".", "m", "d" >>

MkIssue(f, b, t, s, g) ==
  [filename |-> f, bug_number |-> b, title |-> t, status |-> s, tags |-> g]

\* The Issues a list passed to generate_report is made of
IssueSet ==
  { MkIssue(F1, 1, << "A" >>, Open, NotVerified),
    MkIssue(F2, 1, << "B" >>, Open, NotVerified),
    MkIssue(F3, 2, << "C" >>, Fixed, Verified),
    MkIssue(F4, 10, NoTitle, Wontfix, Unknown),
    MkIssue(F5, 2, << "E" >>, Deferred, closed),
    MkIssue(F6, 3, << "F" >>, closed, Deferred) }

\* ------------------------------------------------------------------------
\* State
\* ------------------------------------------------------------------------
VARIABLES
  \* main
  dir_kind,      \* what is at the path issues_dir: "dir", "file" or "missing"
  dir,           \* the entries of the directory: name -> file
  args,          \* the parsed command line
  pc,            \* position of main
  listing,       \* sorted(issues_dir.glob("*.md"))
  idx,           \* position of the loop over listing
  issues,        \* the list issues of main
  stderr,        \* the messages printed to sys.stderr
  stdout,        \* what was printed to standard output
  written,       \* the calls of output_path.write_text
  exit_status,   \* exit status of the process, -1 while it runs
  \* parse_issue, step by step
  path,          \* the argument: name and file
  ppc,           \* position of parse_issue
  lines,         \* text.splitlines()
  lineno,        \* position of the loop over lines
  fields,        \* title, status, tags and how the last iteration ended
  bug_number,    \* the local bug_number
  parsed,        \* what parse_issue returned
  \* generate_report, step by step
  rissues,       \* the argument issues
  rpc,           \* position of generate_report
  ri,            \* position of the counting loop
  status_counts, \* the dict status_counts
  tags_counts,   \* the dict tags_counts
  stat_status,   \* the lines joined into stat_status
  stat_tags,     \* the lines joined into stat_tags
  rows,          \* the list rows
  report         \* the returned text

main_vars == << dir_kind, dir, args, pc, listing, idx, issues, stderr, stdout,
                written, exit_status >>
parse_vars == << path, ppc, lines, lineno, fields, bug_number, parsed >>
report_vars == << rissues, rpc, ri, status_counts, tags_counts, stat_status,
                  stat_tags, rows, report >>
vars == << main_vars, parse_vars, report_vars >>

NoArgs == [dry_run |-> FALSE, output |-> "default"]

MainIdle ==
  /\ dir_kind = "missing" /\ dir = << >> /\ args = NoArgs /\ pc = "idle"
  /\ listing = << >> /\ idx = 1 /\ issues = << >> /\ stderr = << >>
  /\ stdout = << >> /\ written = << >> /\ exit_status = -1

ParseIdle ==
  /\ path = [name |-> << >>, file |-> OSErrorFile] /\ ppc = "idle"
  /\ lines = << >> /\ lineno = 1 /\ fields = InitFields /\ bug_number = 0
  /\ parsed = [kind |-> "running", issue |-> NoIssue]

ReportIdle ==
  /\ rissues = << >> /\ rpc = "idle" /\ ri = 1
  /\ status_counts = << >> /\ tags_counts = << >>
  /\ stat_status = << >> /\ stat_tags = << >> /\ rows = << >> /\ report = << >>

\* ------------------------------------------------------------------------
\* parse_issue, one step at a time
\* ------------------------------------------------------------------------
InitParse ==
  /\ MainIdle /\ ReportIdle
  /\ \/ path \in [name : {N_b},
                  file : {OSErrorFile, UndecodableFile}
                         \cup { TextFile(Join(ls)) : ls \in SeqsUpTo(LineSet, MaxLines) }]
     \/ path \in [name : {N_d}, file : FileSet]
  /\ ppc = "classify"
  /\ lines = << >> /\ lineno = 1 /\ fields = InitFields /\ bug_number = 0
  /\ parsed = [kind |-> "running", issue |-> NoIssue]

\* The search of the bug number in the name and the three defaults
P_Classify ==
  /\ ppc = "classify"
  /\ LET m == BUG_NUMBER_RE_search(path.name) IN
       IF ~m.ok
       THEN /\ parsed' = [kind |-> "none", issue |-> NoIssue]
            /\ ppc' = "done"
            /\ UNCHANGED << bug_number, fields >>
       ELSE /\ bug_number' = int(m.group)
            /\ fields' = InitFields
            /\ ppc' = "read"
            /\ UNCHANGED parsed
  /\ UNCHANGED << path, lines, lineno, main_vars, report_vars >>

\* The try statement around read_text
P_Read ==
  /\ ppc = "read"
  /\ IF path.file.kind = "text"
     THEN /\ lines' = splitlines(path.file.text)
          /\ lineno' = 1
          /\ ppc' = IF lines' = << >> THEN "return" ELSE "scan"
          /\ UNCHANGED parsed
     ELSE /\ parsed' = [kind |-> IF Caught(path.file.kind) THEN "warn" ELSE "raise",
                        issue |-> NoIssue]
          /\ ppc' = "done"
          /\ UNCHANGED << lines, lineno >>
  /\ UNCHANGED << path, fields, bug_number, main_vars, report_vars >>

\* One iteration of the loop over the lines
P_ScanLine ==
  /\ ppc = "scan"
  /\ lineno <= Len(lines)
  /\ fields' = ScanLine(fields, lines[lineno])
  /\ lineno' = lineno + 1
  /\ ppc' = IF fields'.brk \/ lineno = Len(lines) THEN "return" ELSE "scan"
  /\ UNCHANGED << path, lines, bug_number, parsed, main_vars, report_vars >>

\* return Issue(...)
P_Return ==
  /\ ppc = "return"
  /\ parsed' = [kind |-> "issue", issue |-> Issue(path.name, bug_number, fields)]
  /\ ppc' = "done"
  /\ UNCHANGED << path, lines, lineno, fields, bug_number, main_vars, report_vars >>

NextParse == P_Classify \/ P_Read \/ P_ScanLine \/ P_Return

SpecParse == InitParse /\ [][NextParse]_vars

\* ------------------------------------------------------------------------
\* generate_report, one step at a time
\* ------------------------------------------------------------------------
InitReport ==
  /\ MainIdle /\ ParseIdle
  /\ rissues \in SeqsUpTo(IssueSet, MaxIssues)
  /\ rpc = "count" /\ ri = 1
  /\ status_counts = << >> /\ tags_counts = << >>
  /\ stat_status = << >> /\ stat_tags = << >> /\ rows = << >> /\ report = << >>

\* One iteration of the counting loop
R_Count ==
  /\ rpc = "count"
  /\ ri <= Len(rissues)
  /\ status_counts' = Incr(status_counts, rissues[ri].status)
  /\ tags_counts' = Incr(tags_counts, rissues[ri].tags)
  /\ ri' = ri + 1
  /\ UNCHANGED << rissues, rpc, stat_status, stat_tags, rows, report,
                  main_vars, parse_vars >>

\* The two calls of _stat_lines
R_Stats ==
  /\ rpc = "count"
  /\ ri > Len(rissues)
  /\ stat_status' = stat_lines(status_counts, STATUS_ORDER)
  /\ stat_tags' = stat_lines(tags_counts, TAGS_ORDER)
  /\ rpc' = "rows"
  /\ UNCHANGED << rissues, ri, status_counts, tags_counts, rows, report,
                  main_vars, parse_vars >>

\* The loop that builds the rows of the table
R_Rows ==
  /\ rpc = "rows"
  /\ rows' = table_rows(rissues)
  /\ rpc' = "assemble"
  /\ UNCHANGED << rissues, ri, status_counts, tags_counts, stat_status,
                  stat_tags, report, main_vars, parse_vars >>

\* The f-string of the report and the return
R_Assemble ==
  /\ rpc = "assemble"
  /\ report' = Assemble(Join(stat_status), Join(stat_tags), Join(rows))
  /\ rpc' = "done"
  /\ UNCHANGED << rissues, ri, status_counts, tags_counts, stat_status,
                  stat_tags, rows, main_vars, parse_vars >>

NextReport == R_Count \/ R_Stats \/ R_Rows \/ R_Assemble

SpecReport == InitReport /\ [][NextReport]_vars

\* ------------------------------------------------------------------------
\* main
\* ------------------------------------------------------------------------
DotMd == << ".", "m", "d" >>

\* The match of the pattern "*.md" of glob
GlobMd(name) == Len(name) >= Len(DotMd) /\ From(name, Len(name) - Len(DotMd) + 1) = DotMd

\* The orders in which glob can yield the names of S
RECURSIVE Orders(_)
Orders(S) ==
  IF S = {} THEN { << >> }
  ELSE UNION { { << n >> \o g : g \in Orders(S \ {n}) } : n \in S }

\* The test of the loop of main that skips the report itself
IsReport(name) == name = ReportName

\* Faulty variant of is_dir: issues_dir.exists()
exists(kind) == kind # "missing"
\* issues_dir.is_dir()
is_dir(kind) == kind = "dir"

Init ==
  /\ ParseIdle /\ ReportIdle
  /\ \/ /\ dir_kind = "dir"
        /\ \E S \in SUBSET Names :
             /\ Cardinality(S) <= MaxDirFiles
             /\ dir \in [S -> FileSet]
     \/ /\ dir_kind \in {"file", "missing"}
        /\ dir = << >>
  /\ args = NoArgs /\ pc = "start"
  /\ listing = << >> /\ idx = 1 /\ issues = << >> /\ stderr = << >>
  /\ stdout = << >> /\ written = << >> /\ exit_status = -1

\* parse_args, the check of the directory, and the sorted glob
CheckDir ==
  /\ pc = "start"
  /\ \E d \in BOOLEAN, o \in {"default", "other"} :
       args' = [dry_run |-> d, output |-> o]
  /\ IF ~is_dir(dir_kind)
     THEN /\ stderr' = Append(stderr, [level |-> "ERROR", about |-> << "issues_dir" >>])
          /\ exit_status' = 1
          /\ pc' = "exited"
          /\ UNCHANGED listing
     ELSE /\ \E g \in Orders({ n \in DOMAIN dir : GlobMd(n) }) :
               listing' = sorted_strs(g)
          /\ pc' = "scan"
          /\ UNCHANGED << stderr, exit_status >>
  /\ UNCHANGED << dir_kind, dir, idx, issues, stdout, written, parse_vars, report_vars >>

\* One iteration of the loop over the sorted paths
ScanFile ==
  /\ pc = "scan"
  /\ idx <= Len(listing)
  /\ LET name == listing[idx]
         r == parse_issue(name, dir[name])
     IN  IF IsReport(name)
         THEN /\ idx' = idx + 1
              /\ UNCHANGED << issues, stderr, pc, exit_status >>
         ELSE IF r.kind = "raise"
         THEN /\ stderr' = Append(stderr, [level |-> "Traceback", about |-> name])
              /\ exit_status' = 1
              /\ pc' = "crashed"
              /\ UNCHANGED << idx, issues >>
         ELSE /\ idx' = idx + 1
              /\ issues' = IF r.kind = "issue" THEN Append(issues, r.issue) ELSE issues
              /\ stderr' = IF r.kind = "warn"
                           THEN Append(stderr, [level |-> "WARN", about |-> name])
                           ELSE stderr
              /\ UNCHANGED << pc, exit_status >>
  /\ UNCHANGED << dir_kind, dir, args, listing, stdout, written, parse_vars, report_vars >>

\* The end of main: the warning, generate_report, and the print or the write
WriteReport ==
  /\ pc = "scan"
  /\ idx > Len(listing)
  /\ stderr' = IF issues = << >>
               THEN Append(stderr, [level |-> "WARN", about |-> << "No issue files found." >>])
               ELSE stderr
  /\ LET rep == generate_report(issues) IN
       IF args.dry_run
       THEN /\ stdout' = Append(stdout, [kind |-> "report", text |-> rep.text])
            /\ UNCHANGED << written, dir >>
       ELSE /\ written' = Append(written, [path |-> args.output, text |-> rep.text])
            /\ dir' = IF args.output = "default"
                      THEN [n \in DOMAIN dir \cup {ReportName} |->
                              IF n = ReportName THEN TextFile(rep.text) ELSE dir[n]]
                      ELSE dir
            /\ stdout' = Append(stdout, [kind |-> "OK", text |-> str(Len(issues))])
  /\ pc' = "done"
  /\ exit_status' = 0
  /\ UNCHANGED << dir_kind, args, listing, idx, issues, parse_vars, report_vars >>

Next == CheckDir \/ ScanFile \/ WriteReport

Spec == Init /\ [][Next]_vars


\* ========================================================================
\* Properties of parse_issue (SpecParse)
\* ========================================================================

\* The name contains "_bug", at least one digit and "_", ignoring case
HasBugPattern(name) ==
  \E i \in 1..Len(name) : \E e \in (i + 5)..Len(name) :
    /\ \A k \in 1..4 : Lower(name[i + k - 1]) = BugLit[k]
    /\ \A k \in (i + 4)..(e - 1) : IsDigit(name[k])
    /\ name[e] = "_"

Returned == ppc = "done" /\ parsed.kind = "issue"

\* The match of the pattern of the field f on a trimmed line
FieldMatch(f, line) ==
  IF f = "title" THEN TITLE_RE_match(line)
  ELSE IF f = "status" THEN STATUS_RE_match(line)
  ELSE TAGS_RE_match(line)

\* Some line matches the pattern of f, and the value the first such line gives
AnyMatch(ls, f) == \E i \in 1..Len(ls) : FieldMatch(f, Strip(ls[i])).ok
FirstIdx(ls, f) ==
  CHOOSE i \in 1..Len(ls) :
    /\ FieldMatch(f, Strip(ls[i])).ok
    /\ \A j \in 1..(i - 1) : ~FieldMatch(f, Strip(ls[j])).ok
FirstValue(ls, f) == Strip(FieldMatch(f, Strip(ls[FirstIdx(ls, f)])).group)
MatchValues(ls, f) ==
  { Strip(FieldMatch(f, Strip(ls[i])).group) :
      i \in { j \in 1..Len(ls) : FieldMatch(f, Strip(ls[j])).ok } }

\* The lines that match the pattern of f, in order
RECURSIVE Only(_, _)
Only(ls, f) ==
  IF ls = << >> THEN << >>
  ELSE IF FieldMatch(f, Strip(Head(ls))).ok THEN << Head(ls) >> \o Only(Tail(ls), f)
  ELSE Only(Tail(ls), f)

\* C1: each of title, status and tags of the returned Issue is the trimmed
\* remainder of the first line that matches the field's pattern, whatever
\* that value is.
C1_FirstMatchWins ==
  Returned =>
    /\ AnyMatch(lines, "title") => parsed.issue.title = FirstValue(lines, "title")
    /\ AnyMatch(lines, "status") => parsed.issue.status = FirstValue(lines, "status")
    /\ AnyMatch(lines, "tags") => parsed.issue.tags = FirstValue(lines, "tags")

SpecNoTitle == << "n", "o", " ", "t", "i", "t", "l", "e" >>
AngleNoTitle == << "<", "n", "o", " ", "t", "i", "t", "l", "e", ">" >>
SpecUnknown == << "U", "n", "k", "n", "o", "w", "n" >>

\* A readable file with a matching name yields an Issue
RecordEmitted ==
  (ppc = "done" /\ path.file.kind = "text" /\ HasBugPattern(path.name))
    => parsed.kind = "issue"

\* A field with a matching line holds the value of one of its matching
\* lines, the one the scan finds when the lines of the other fields are
\* taken out of the file
FoundFieldsIndependent ==
  Returned =>
    /\ AnyMatch(lines, "title") =>
         /\ parsed.issue.title \in MatchValues(lines, "title")
         /\ parsed.issue.title
              = ScanFrom(Only(lines, "title"), 1, InitFields).title
    /\ AnyMatch(lines, "status") =>
         /\ parsed.issue.status \in MatchValues(lines, "status")
         /\ parsed.issue.status
              = ScanFrom(Only(lines, "status"), 1, InitFields).status
    /\ AnyMatch(lines, "tags") =>
         /\ parsed.issue.tags \in MatchValues(lines, "tags")
         /\ parsed.issue.tags
              = ScanFrom(Only(lines, "tags"), 1, InitFields).tags

\* C7 as stated: a readable file with a matching name yields an Issue; a
\* field without a matching line holds its default, "no title" for the title
\* and "Unknown" for status and tags; a field with a matching line holds an
\* extracted value whichever other fields are missing.
C7_DefaultsAsStated ==
  /\ RecordEmitted
  /\ FoundFieldsIndependent
  /\ Returned =>
       /\ ~AnyMatch(lines, "title") => parsed.issue.title = SpecNoTitle
       /\ ~AnyMatch(lines, "status") => parsed.issue.status = SpecUnknown
       /\ ~AnyMatch(lines, "tags") => parsed.issue.tags = SpecUnknown

\* C7, amended: the same, with the default of the title being "<no title>",
\* angle brackets included.
C7_Defaults ==
  /\ RecordEmitted
  /\ FoundFieldsIndependent
  /\ Returned =>
       /\ ~AnyMatch(lines, "title") => parsed.issue.title = AngleNoTitle
       /\ ~AnyMatch(lines, "status") => parsed.issue.status = SpecUnknown
       /\ ~AnyMatch(lines, "tags") => parsed.issue.tags = SpecUnknown

\* A file with a status line and a tags line after it, and no title line
C7_Witness ==
  /\ Returned
  /\ ~AnyMatch(lines, "title")
  /\ parsed.issue.title = AngleNoTitle
  /\ parsed.issue.status = Fixed
  /\ parsed.issue.tags = NotVerified
  /\ FirstIdx(lines, "status") < FirstIdx(lines, "tags")

\* The loop of parse_issue with the break taken out
RECURSIVE ScanNoBreak(_, _, _)
ScanNoBreak(ls, i, st) ==
  IF i > Len(ls) THEN st ELSE ScanNoBreak(ls, i + 1, UpdateFields(st, ls[i]))

\* C10: the title, status and tags returned by the scan that breaks are
\* those of the scan that processes every line.
C10_BreakChangesNothing ==
  Returned =>
    LET all == ScanNoBreak(lines, 1, InitFields) IN
      /\ parsed.issue.title = all.title
      /\ parsed.issue.status = all.status
      /\ parsed.issue.tags = all.tags

\* The break was taken and left a header line unread
C10_Witness ==
  /\ Returned
  /\ fields.brk
  /\ \E i \in lineno..Len(lines) :
       \/ TITLE_RE_match(Strip(lines[i])).ok
       \/ STATUS_RE_match(Strip(lines[i])).ok
       \/ TAGS_RE_match(Strip(lines[i])).ok


\* ========================================================================
\* Properties of generate_report (SpecReport)
\* ========================================================================

\* The permutations of 1..n
Perms(n) == { p \in [1..n -> 1..n] : \A i, j \in 1..n : i # j => p[i] # p[j] }

\* C4: the table has one row per Issue, in ascending order of bug_number,
\* and Issues with the same bug_number keep the order of the input list.
C4_RowsSortedStable ==
  rpc \in {"assemble", "done"} =>
    /\ Len(rows) = Len(rissues)
    /\ \E p \in Perms(Len(rissues)) :
         /\ \A i \in 1..Len(rows) : rows[i] = Row(rissues[p[i]])
         /\ \A i, j \in 1..Len(rows) :
              i < j =>
                /\ rissues[p[i]].bug_number <= rissues[p[j]].bug_number
                /\ rissues[p[i]].bug_number = rissues[p[j]].bug_number => p[i] < p[j]

\* The scenario of bug numbers 2, 1, 1: first bug 1, second bug 1, bug 2
C4_Witness ==
  /\ rpc = "done"
  /\ rissues = << MkIssue(F3, 2, << "C" >>, Fixed, Verified),
                  MkIssue(F1, 1, << "A" >>, Open, NotVerified),
                  MkIssue(F2, 1, << "B" >>, Open, NotVerified) >>
  /\ rows = << Row(rissues[2]), Row(rissues[3]), Row(rissues[1]) >>

\* The values of a field over the list, and how often v occurs
Observed(vals) == { vals[i] : i \in 1..Len(vals) }
Occurrences(vals, v) == Cardinality({ i \in 1..Len(vals) : vals[i] = v })
Position(order, v) == CHOOSE i \in 1..Len(order) : order[i] = v

\* a comes before b in a statistics list
Precedes(order, a, b) ==
  \/ InOrder(order, a) /\ InOrder(order, b) /\ Position(order, a) < Position(order, b)
  \/ InOrder(order, a) /\ ~InOrder(order, b)
  \/ ~InOrder(order, a) /\ ~InOrder(order, b) /\ StrLess(a, b)

\* ls lists each observed value once with its count, in the order Precedes
StatsListed(ls, vals, order) ==
  /\ Len(ls) = Cardinality(Observed(vals))
  /\ \E ks \in [1..Len(ls) -> Observed(vals)] :
       /\ \A i, j \in 1..Len(ls) : i < j => ks[i] # ks[j] /\ Precedes(order, ks[i], ks[j])
       /\ \A i \in 1..Len(ls) : ls[i] = Bullet(ks[i], Occurrences(vals, ks[i]))

StatusesOf(is) == [i \in 1..Len(is) |-> is[i].status]
TagsOf(is) == [i \in 1..Len(is) |-> is[i].tags]

\* C5: each statistics list holds every observed value once with its count
\* and no other value: first the canonical values that occur, in the fixed
\* order, then the other values in ascending lexicographic order.
C5_StatLinesOrdered ==
  rpc \in {"rows", "assemble", "done"} =>
    /\ StatsListed(stat_status, StatusesOf(rissues), STATUS_ORDER)
    /\ StatsListed(stat_tags, TagsOf(rissues), TAGS_ORDER)

\* Two other values met in descending order, then a canonical value twice
C5_Witness ==
  /\ rpc = "done"
  /\ Len(rissues) = 3
  /\ StatusesOf(rissues) = << Wontfix, Deferred, Fixed >>
  /\ stat_status = << Bullet(Fixed, 1), Bullet(Deferred, 1), Bullet(Wontfix, 1) >>
  /\ stat_tags = << Bullet(Verified, 1), Bullet(Unknown, 1), Bullet(closed, 1) >>

\* The list in the order p
Permuted(is, p) == [i \in 1..Len(is) |-> is[p[i]]]

\* C6: the report of every permutation of the list has the same two
\* statistics lists; its table differs at most in the order of the rows
\* whose bug_number is shared by several Issues.
C6_StatsOrderIndependent ==
  rpc = "done" =>
    \A p \in Perms(Len(rissues)) :
      LET q == Permuted(rissues, p)
          other == generate_report(q)
      IN  /\ other.stat_status = stat_status
          /\ other.stat_tags = stat_tags
          /\ Len(other.rows) = Len(rows)
          /\ \A i \in 1..Len(rows) :
               /\ sorted_issues(q)[i].bug_number = sorted_issues(rissues)[i].bug_number
               /\ other.rows[i] # rows[i] =>
                    \E j \in 1..Len(rissues) :
                      /\ Row(rissues[j]) # rows[i]
                      /\ rissues[j].bug_number = sorted_issues(rissues)[i].bug_number

\* Canonical values met against their fixed order, another value after
\* them, and two Issues of one bug_number
C6_Witness ==
  /\ rpc = "done"
  /\ Len(rissues) = 3
  /\ StatusesOf(rissues) = << Open, Fixed, Deferred >>
  /\ TagsOf(rissues) = << NotVerified, Verified, closed >>
  /\ rissues[2].bug_number = rissues[3].bug_number
  /\ stat_status = << Bullet(Fixed, 1), Bullet(Open, 1), Bullet(Deferred, 1) >>

\* ========================================================================
\* Properties of main (Spec)
\* ========================================================================

\* The report of the run, printed or written
ReportText == IF args.dry_run THEN stdout[1].text ELSE written[1].text

Contains(text, sub) ==
  \E i \in 1..(Len(text) - Len(sub) + 1) : SubSeq(text, i, i + Len(sub) - 1) = sub

\* The text holds a table row that links to the file n
HasRow(text, n) ==
  Contains(text, << "\n", "|", " ", "[" >> \o n \o << "]", "(", ".", "/" >> \o n
                 \o << ")", " ", "|", " " >>)

Qualifies(n) == HasBugPattern(n) /\ n # ReportName
Unreadable(n) == Qualifies(n) /\ dir[n].kind = "oserror"

\* C2: once the directory is known to be one, nothing halts the run: it ends
\* only after every file was processed and the report was produced.
C2_OnlyConfigErrorAborts ==
  (is_dir(dir_kind) /\ exit_status # -1) =>
    /\ pc = "done"
    /\ exit_status = 0
    /\ idx > Len(listing)
    /\ Len(stdout) + Len(written) > 0

\* C3: on a file that cannot be read, parse_issue warns and returns None,
\* the list of Issues stays as it is and the loop goes on; the report has a
\* row for every other qualifying file and none for the unreadable one.
C3_UnreadableFileSkipped ==
  [][ /\ (pc = "scan" /\ idx <= Len(listing) /\ Unreadable(listing[idx]))
           => /\ stderr' = Append(stderr, [level |-> "WARN", about |-> listing[idx]])
              /\ issues' = issues
              /\ idx' = idx + 1
              /\ pc' = "scan"
      /\ (pc = "scan" /\ pc' = "done")
           => \A k \in 1..Len(listing) :
                Qualifies(listing[k]) =>
                  (HasRow(IF args.dry_run THEN stdout'[1].text ELSE written'[1].text,
                          listing[k])
                     <=> ~Unreadable(listing[k])) ]_vars

\* An unreadable file was met before a readable one, and the report is out
C3_Witness ==
  /\ pc = "done"
  /\ \E i, j \in 1..Len(listing) :
       /\ i < j
       /\ Unreadable(listing[i])
       /\ Qualifies(listing[j])
       /\ ~HasRow(ReportText, listing[i])
       /\ HasRow(ReportText, listing[j])
       /\ \E k \in 1..Len(stderr) : stderr[k] = [level |-> "WARN", about |-> listing[i]]

\* C8: every Issue of the list comes from one scanned file of its own, whose
\* name holds the bug pattern and is not ISSUES_REPORT.md.
C8_IssuesFromMatchingFiles ==
  /\ \A i \in 1..Len(issues) :
       /\ HasBugPattern(issues[i].filename)
       /\ issues[i].filename # ReportName
       /\ \E k \in 1..Len(listing) : k < idx /\ listing[k] = issues[i].filename
  /\ \A i, j \in 1..Len(issues) : i # j => issues[i].filename # issues[j].filename

\* The report went to another path, and the directory held ISSUES_REPORT.md,
\* a file with headers but without the pattern, and an issue file
C8_Witness ==
  /\ pc = "done"
  /\ args.output = "other" /\ ~args.dry_run
  /\ \E k \in 1..Len(listing) : listing[k] = ReportName
  /\ \E k \in 1..Len(listing) : listing[k] = N_d /\ dir[N_d] = TextFile(T_Full)
  /\ Len(issues) = 1

\* C9: when issues_dir is not a directory, main reports it on stderr and
\* exits with status 1; nothing is parsed, written or printed.
C9_ConfigErrorAborts ==
  (dir_kind # "dir" /\ pc # "start") =>
    /\ pc = "exited"
    /\ exit_status = 1
    /\ stderr = << [level |-> "ERROR", about |-> << "issues_dir" >>] >>
    /\ idx = 1 /\ issues = << >>
    /\ written = << >> /\ stdout = << >>
    /\ ~ENABLED Next

\* The path is a file, not a directory, and the run was a dry run
C9_Witness ==
  /\ pc = "exited"
  /\ dir_kind = "file"
  /\ args.dry_run
  /\ exit_status = 1

====
